---- MODULE Spec2Model ----
(***************************************************************************)
(* Queue-processing engine of rinha-backend-2025 (src/app): the two worker *)
(* pools of queue.py, the dispatch pipeline payment_processor of           *)
(* services.py, the ledger (two Redis sorted sets), the processed markers, *)
(* the 'failing' key written by health_check, and the summary script.      *)
(*                                                                         *)
(* Redis lists: LPUSH puts at the head (index 1), BRPOP takes the tail.    *)
(* A sorted set is a set of members; a member of a ledger partition is the *)
(* JSON of the payment plus 'requested_at', which is also its score.       *)
(***************************************************************************)
EXTENDS Integers, Sequences, FiniteSets

\* ---------------------------------------------------------------- bounds
MaxTime == 2
MaxEnqueue == 2
MaxPosts == 3
MaxFaults == 1
MaxRecords == 2

\* ------------------------------------------------------ program constants
MAX_WORKERS == 1
FALLBACK_WORKER_DELAY == 1
MAX_RETRIES == 1
REDIS_KEY_EXPIRATION == 2
ERROR_SLEEP == 2
HEALTH_INTERVAL == 5

CorrelationIds == {"a1", "a2"}
\* amounts in cents: 19.90 and 100.00
Amounts == {1990, 10000}

REDIS_QUEUE == "payments_queue"
REDIS_FALLBACK_QUEUE == "fallback_queue"
REDIS_DEAD_LETTER_QUEUE == "dead_letter_queue"
PAYMENT_ZKEY == "payments"
PAYMENT_FALLBACK_ZKEY == "payments_fallback"

MainWorkers == 1..MAX_WORKERS
FallbackWorkers == (MAX_WORKERS + 1)..(2 * MAX_WORKERS)
Workers == MainWorkers \cup FallbackWorkers

NoJob == [correlationId |-> "none", amount |-> 0]

\* an optional datetime: <<>> is None, <<t>> is the time t
OptTimes == {<<>>} \cup {<<t>> : t \in 0..MaxTime}

VARIABLES
    lists,        \* Redis lists, by queue name
    zsets,        \* Redis sorted sets (ledger partitions), by key
    processed,    \* processed:<correlationId> keys: expiry time, 0 = absent
    failing,      \* the 'failing' key: "unset", "True" or "False"
    clock,        \* wall clock
    pc,           \* position of each worker in its loop
    job,          \* the raw item a worker holds (data)
    requestAt,    \* request_at of the worker's current dispatch
    wakeAt,       \* end of the worker's current asyncio.sleep
    sawFailing,   \* 'failing' has read "True" ever since the worker's pop
    monitor,      \* health_check_loop: position and end of its sleep
    accepted,     \* requests accepted by the HTTP layer, per id and amount
    posts,        \* POSTs the external processor answered, per id: ok / fail
    faults,       \* number of store exceptions raised so far
    summary       \* last answer of get_summary

vars == <<lists, zsets, processed, failing, clock, pc, job, requestAt, wakeAt,
          sawFailing, monitor, accepted, posts, faults, summary>>

Min(a, b) == IF a < b THEN a ELSE b

\* --------------------------------------------------------- Redis commands
LPush(q, x) == <<x>> \o q

RPopValue(q) == q[Len(q)]

RPopRest(q) == SubSeq(q, 1, Len(q) - 1)

ZAdd(z, member) == z \cup {member}

ZRangeByScore(z, lo, hi) == {m \in z : lo <= m.requested_at /\ m.requested_at <= hi}

\* a guard that finds no marker at all
LiveNever(c) == FALSE

\* processed:<id> is live until its expiry time
Live(c) == clock < processed[c]

WakeTime(d) == Min(clock + d, MaxTime)

Expiry(ttl) == Min(clock + ttl, MaxTime + 1)

RECURSIVE SumOver(_, _)
SumOver(f, S) ==
    IF S = {} THEN 0
    ELSE LET x == CHOOSE y \in S : TRUE IN f[x] + SumOver(f, S \ {x})

AcceptedOf(c) == SumOver(accepted[c], Amounts)

NumAccepted == SumOver([c \in CorrelationIds |-> AcceptedOf(c)], CorrelationIds)

PostsOf(c) == posts[c].ok + posts[c].fail

\* the queue a worker drains: queue_name of consumer_loop, or the fallback queue
QueueOf(w) == IF w \in MainWorkers THEN REDIS_QUEUE ELSE REDIS_FALLBACK_QUEUE

\* is_fallback told from the pool the worker belongs to
IsFallbackArgByPool(w) == w \in FallbackWorkers

\* the is_fallback argument of payment_processor: both pools call
\* payment_processor(data), so the default False is what it receives
IsFallbackArg(w) == FALSE

\* retryCount of a queue item; the items the code builds carry no such key
RetryCount(item) == IF "retryCount" \in DOMAIN item THEN item.retryCount ELSE 0

\* ------------------------------------------------------------------- Init
Init ==
    /\ lists = [q \in {REDIS_QUEUE, REDIS_FALLBACK_QUEUE, REDIS_DEAD_LETTER_QUEUE} |-> <<>>]
    /\ zsets = [k \in {PAYMENT_ZKEY, PAYMENT_FALLBACK_ZKEY} |-> {}]
    /\ processed = [c \in CorrelationIds |-> 0]
    /\ failing = "unset"
    /\ clock = 0
    /\ pc = [w \in Workers |-> "brpop"]
    /\ job = [w \in Workers |-> NoJob]
    /\ requestAt = [w \in Workers |-> 0]
    /\ wakeAt = [w \in Workers |-> 0]
    /\ sawFailing = [w \in Workers |-> FALSE]
    /\ monitor = [pc |-> "probe", wakeAt |-> 0]
    /\ accepted = [c \in CorrelationIds |-> [a \in Amounts |-> 0]]
    /\ posts = [c \in CorrelationIds |-> [ok |-> 0, fail |-> 0]]
    /\ faults = 0
    /\ summary = [from |-> <<>>, to |-> <<>>, at |-> 0,
                  default |-> [totalRequests |-> 0, totalAmount |-> 0],
                  fallback |-> [totalRequests |-> 0, totalAmount |-> 0]]

\* ---------------------------------------------------------------- actions
\* tasks.add_payment, called by the HTTP layer
Enqueue(c, a) ==
    /\ NumAccepted < MaxEnqueue
    /\ lists' = [lists EXCEPT ![REDIS_QUEUE] = LPush(@, [correlationId |-> c, amount |-> a])]
    /\ accepted' = [accepted EXCEPT ![c][a] = @ + 1]
    /\ UNCHANGED <<zsets, processed, failing, clock, pc, job, requestAt, wakeAt,
                   sawFailing, monitor, posts, faults, summary>>

Tick ==
    /\ clock < MaxTime
    /\ clock' = clock + 1
    /\ UNCHANGED <<lists, zsets, processed, failing, pc, job, requestAt, wakeAt,
                   sawFailing, monitor, accepted, posts, faults, summary>>

\* brpop returned a message; the fallback worker then sleeps FALLBACK_WORKER_DELAY
Brpop(w) ==
    /\ pc[w] = "brpop"
    /\ Len(lists[QueueOf(w)]) > 0
    /\ job' = [job EXCEPT ![w] = RPopValue(lists[QueueOf(w)])]
    /\ lists' = [lists EXCEPT ![QueueOf(w)] = RPopRest(@)]
    /\ pc' = [pc EXCEPT ![w] = IF w \in MainWorkers THEN "get" ELSE "delay"]
    /\ wakeAt' = [wakeAt EXCEPT ![w] =
                     IF w \in MainWorkers THEN 0 ELSE WakeTime(FALLBACK_WORKER_DELAY)]
    /\ sawFailing' = [sawFailing EXCEPT ![w] = (failing = "True")]
    /\ UNCHANGED <<zsets, processed, failing, clock, requestAt, monitor, accepted,
                   posts, faults, summary>>

\* asyncio.sleep(FALLBACK_WORKER_DELAY) returns
Delay(w) ==
    /\ pc[w] = "delay"
    /\ clock >= wakeAt[w]
    /\ pc' = [pc EXCEPT ![w] = "health"]
    /\ wakeAt' = [wakeAt EXCEPT ![w] = 0]
    /\ UNCHANGED <<lists, zsets, processed, failing, clock, job, requestAt,
                   sawFailing, monitor, accepted, posts, faults, summary>>

\* services.health_check: str(response.get('failing')) is SET as 'failing',
\* whatever the status of the answer; when the GET, the JSON or the SET raises
\* ("error") the exception is caught and nothing is set
HealthCheck(probe) == IF probe = "error" THEN failing ELSE probe

SawFailingAfter(newFailing) ==
    [w \in Workers |-> sawFailing[w] /\ newFailing = "True"]

\* the fallback worker's own health_check() call before payment_processor
WorkerHealth(w, probe) ==
    /\ pc[w] = "health"
    /\ failing' = HealthCheck(probe)
    /\ sawFailing' = SawFailingAfter(HealthCheck(probe))
    /\ pc' = [pc EXCEPT ![w] = "get"]
    /\ UNCHANGED <<lists, zsets, processed, clock, job, requestAt, wakeAt,
                   monitor, accepted, posts, faults, summary>>

\* payment_processor: redis get processed:<id>; skip when set, else take request_at
Get(w) ==
    /\ pc[w] = "get"
    /\ IF Live(job[w].correlationId)
         THEN /\ pc' = [pc EXCEPT ![w] = "brpop"]
              /\ job' = [job EXCEPT ![w] = NoJob]
              /\ sawFailing' = [sawFailing EXCEPT ![w] = FALSE]
              /\ UNCHANGED requestAt
         ELSE /\ pc' = [pc EXCEPT ![w] = "send"]
              /\ requestAt' = [requestAt EXCEPT ![w] = clock]
              /\ UNCHANGED <<job, sawFailing>>
    /\ UNCHANGED <<lists, zsets, processed, failing, clock, wakeAt, monitor,
                   accepted, posts, faults, summary>>

\* a gateway that takes a server error for a settlement
SendPaymentLenient(response) == response \in {"2xx", "5xx"}

\* services.send_payment: True on a 2xx answer, False on any other answer or
\* on a request error
SendPayment(response) == response = "2xx"

Responses == {"2xx", "5xx", "timeout"}

\* the POST of send_payment is answered; payment_processor branches on it
Send(w, response) ==
    /\ pc[w] = "send"
    /\ PostsOf(job[w].correlationId) < MaxPosts
    /\ posts' = [posts EXCEPT ![job[w].correlationId] =
                    IF response = "2xx"
                      THEN [@ EXCEPT !.ok = @ + 1]
                      ELSE [@ EXCEPT !.fail = @ + 1]]
    /\ IF SendPayment(response)
         THEN /\ pc' = [pc EXCEPT ![w] = "save"]
              /\ UNCHANGED <<job, requestAt, sawFailing>>
         ELSE IF ~IsFallbackArg(w)
                THEN /\ pc' = [pc EXCEPT ![w] = "route"]
                     /\ UNCHANGED <<job, requestAt, sawFailing>>
                ELSE /\ pc' = [pc EXCEPT ![w] = "brpop"]
                     /\ job' = [job EXCEPT ![w] = NoJob]
                     /\ requestAt' = [requestAt EXCEPT ![w] = 0]
                     /\ sawFailing' = [sawFailing EXCEPT ![w] = FALSE]
    /\ UNCHANGED <<lists, zsets, processed, failing, clock, wakeAt, monitor,
                   accepted, faults, summary>>

\* add_fallback_payment(correlationId, amount): the payment rebuilt from these
\* two values is pushed on the fallback queue (tasks.py names this push
\* add_payment_to_fallback_queue; services.py imports it as add_fallback_payment)
FallbackItem(item) == [correlationId |-> item.correlationId, amount |-> item.amount]

Route(w) ==
    /\ pc[w] = "route"
    /\ lists' = [lists EXCEPT ![REDIS_FALLBACK_QUEUE] = LPush(@, FallbackItem(job[w]))]
    /\ pc' = [pc EXCEPT ![w] = "brpop"]
    /\ job' = [job EXCEPT ![w] = NoJob]
    /\ requestAt' = [requestAt EXCEPT ![w] = 0]
    /\ sawFailing' = [sawFailing EXCEPT ![w] = FALSE]
    /\ UNCHANGED <<zsets, processed, failing, clock, wakeAt, monitor, accepted,
                   posts, faults, summary>>

\* a member that records one amount for every payment
LedgerMemberOneAmount(item, requested_at) ==
    [correlationId |-> item.correlationId, amount |-> 10000,
     requested_at |-> requested_at]

\* services.save_payment: the member is the payment plus requested_at
LedgerMember(item, requested_at) ==
    [correlationId |-> item.correlationId, amount |-> item.amount,
     requested_at |-> requested_at]

\* the two keys taken the wrong way round
LedgerKeySwapped(is_fallback) == IF is_fallback THEN PAYMENT_ZKEY ELSE PAYMENT_FALLBACK_ZKEY

LedgerKey(is_fallback) == IF is_fallback THEN PAYMENT_FALLBACK_ZKEY ELSE PAYMENT_ZKEY

SavePayment(z, item, requested_at, is_fallback) ==
    [z EXCEPT ![LedgerKey(is_fallback)] = ZAdd(@, LedgerMember(item, requested_at))]

Save(w) ==
    /\ pc[w] = "save"
    /\ zsets' = SavePayment(zsets, job[w], requestAt[w], IsFallbackArg(w))
    /\ pc' = [pc EXCEPT ![w] = "set"]
    /\ UNCHANGED <<lists, processed, failing, clock, job, requestAt, wakeAt,
                   sawFailing, monitor, accepted, posts, faults, summary>>

\* redis set processed:<id> 'true' ex=REDIS_KEY_EXPIRATION; payment_processor returns
SetProcessed(w) ==
    /\ pc[w] = "set"
    /\ processed' = [processed EXCEPT ![job[w].correlationId] = Expiry(REDIS_KEY_EXPIRATION)]
    /\ pc' = [pc EXCEPT ![w] = "brpop"]
    /\ job' = [job EXCEPT ![w] = NoJob]
    /\ requestAt' = [requestAt EXCEPT ![w] = 0]
    /\ sawFailing' = [sawFailing EXCEPT ![w] = FALSE]
    /\ UNCHANGED <<lists, zsets, failing, clock, wakeAt, monitor, accepted,
                   posts, faults, summary>>

\* a store command of payment_processor raises: the worker's inner except
RaiseInPipeline(w) ==
    /\ pc[w] \in {"get", "route", "save", "set"}
    /\ faults < MaxFaults
    /\ faults' = faults + 1
    /\ pc' = [pc EXCEPT ![w] = "requeue"]
    /\ UNCHANGED <<lists, zsets, processed, failing, clock, job, requestAt, wakeAt,
                   sawFailing, monitor, accepted, posts, summary>>

\* the inner except: lpush(queue_name, data)
Requeue(w) ==
    /\ pc[w] = "requeue"
    /\ lists' = [lists EXCEPT ![QueueOf(w)] = LPush(@, job[w])]
    /\ pc' = [pc EXCEPT ![w] = "brpop"]
    /\ job' = [job EXCEPT ![w] = NoJob]
    /\ requestAt' = [requestAt EXCEPT ![w] = 0]
    /\ sawFailing' = [sawFailing EXCEPT ![w] = FALSE]
    /\ UNCHANGED <<zsets, processed, failing, clock, wakeAt, monitor, accepted,
                   posts, faults, summary>>

\* the requeueing lpush raises (the store is still failing after the raise
\* that led to it), or brpop raises: the outer except drops data and sleeps 2
RaiseToOuter(w) ==
    /\ pc[w] \in {"requeue", "brpop"}
    /\ pc[w] = "brpop" => faults < MaxFaults
    /\ faults' = IF pc[w] = "brpop" THEN faults + 1 ELSE faults
    /\ pc' = [pc EXCEPT ![w] = "errsleep"]
    /\ wakeAt' = [wakeAt EXCEPT ![w] = WakeTime(ERROR_SLEEP)]
    /\ job' = [job EXCEPT ![w] = NoJob]
    /\ requestAt' = [requestAt EXCEPT ![w] = 0]
    /\ sawFailing' = [sawFailing EXCEPT ![w] = FALSE]
    /\ UNCHANGED <<lists, zsets, processed, failing, clock, monitor, accepted,
                   posts, summary>>

\* asyncio.sleep(2) of the outer except returns; the loop goes on
ErrWake(w) ==
    /\ pc[w] = "errsleep"
    /\ clock >= wakeAt[w]
    /\ pc' = [pc EXCEPT ![w] = "brpop"]
    /\ wakeAt' = [wakeAt EXCEPT ![w] = 0]
    /\ UNCHANGED <<lists, zsets, processed, failing, clock, job, requestAt,
                   sawFailing, monitor, accepted, posts, faults, summary>>

\* health_check_loop: health_check(), then asyncio.sleep(5)
MonitorProbe(probe) ==
    /\ monitor.pc = "probe"
    /\ failing' = HealthCheck(probe)
    /\ sawFailing' = SawFailingAfter(HealthCheck(probe))
    /\ monitor' = [pc |-> "sleep", wakeAt |-> WakeTime(HEALTH_INTERVAL)]
    /\ UNCHANGED <<lists, zsets, processed, clock, pc, job, requestAt, wakeAt,
                   accepted, posts, faults, summary>>

MonitorWake ==
    /\ monitor.pc = "sleep"
    /\ clock >= monitor.wakeAt
    /\ monitor' = [pc |-> "probe", wakeAt |-> 0]
    /\ UNCHANGED <<lists, zsets, processed, failing, clock, pc, job, requestAt,
                   wakeAt, sawFailing, accepted, posts, faults, summary>>

\* services.purge_payments: DEL of the two ledger keys
PurgePayments(z) == [k \in DOMAIN z |-> {}]

Purge ==
    /\ zsets' = PurgePayments(zsets)
    /\ zsets' # zsets
    /\ UNCHANGED <<lists, processed, failing, clock, pc, job, requestAt, wakeAt,
                   sawFailing, monitor, accepted, posts, faults, summary>>

\* LUA_SUMMARY_SCRIPT: the two loops over the ZRANGEBYSCORE results
RECURSIVE LuaTotalAmount(_)
LuaTotalAmount(payments) ==
    IF payments = {} THEN 0
    ELSE LET payment == CHOOSE m \in payments : TRUE
         IN  payment.amount + LuaTotalAmount(payments \ {payment})

\* a Lua number returned by a script becomes a Redis integer reply: the
\* fraction is cut off (amounts are in cents, so whole units are multiples of 100)
LuaNumberToReply(x) == (x \div 100) * 100

LuaSummaryScript(z, min_score, max_score) ==
    LET default_payments == ZRangeByScore(z[PAYMENT_ZKEY], min_score, max_score)
        fallback_payments == ZRangeByScore(z[PAYMENT_FALLBACK_ZKEY], min_score, max_score)
    IN  << Cardinality(default_payments),
           LuaNumberToReply(LuaTotalAmount(default_payments)),
           Cardinality(fallback_payments),
           LuaNumberToReply(LuaTotalAmount(fallback_payments)) >>

\* '-inf' and '+inf' lie outside every score
MinScore(from) == IF from = <<>> THEN -1 ELSE from[1]

MaxScore(to) == IF to = <<>> THEN MaxTime + 1 ELSE to[1]

\* services.get_summary: one EVALSHA of the script over both partitions
GetSummary(from, to) ==
    /\ LET result == LuaSummaryScript(zsets, MinScore(from), MaxScore(to))
       IN  summary' = [from |-> from, to |-> to, at |-> clock,
                       default |-> [totalRequests |-> result[1], totalAmount |-> result[2]],
                       fallback |-> [totalRequests |-> result[3], totalAmount |-> result[4]]]
    /\ UNCHANGED <<lists, zsets, processed, failing, clock, pc, job, requestAt,
                   wakeAt, sawFailing, monitor, accepted, posts, faults>>

\* save_payment called directly, for either partition
Record(c, a, t, is_fallback) ==
    /\ Cardinality(zsets[PAYMENT_ZKEY]) + Cardinality(zsets[PAYMENT_FALLBACK_ZKEY]) < MaxRecords
    /\ zsets' = SavePayment(zsets, [correlationId |-> c, amount |-> a], t, is_fallback)
    /\ zsets' # zsets
    /\ UNCHANGED <<lists, processed, failing, clock, pc, job, requestAt, wakeAt,
                   sawFailing, monitor, accepted, posts, faults, summary>>

\* what a probe of /service-health can give: str(response.get('failing')) of a
\* JSON object ("None" when the object has no 'failing' field, as in the body of
\* an error answer: the status is not looked at), or an exception ("error")
Probes == {"True", "False", "None", "error"}

Next ==
    \/ \E c \in CorrelationIds, a \in Amounts : Enqueue(c, a)
    \/ Tick
    \/ \E w \in Workers : Brpop(w)
    \/ \E w \in Workers : Delay(w)
    \/ \E w \in Workers, p \in Probes : WorkerHealth(w, p)
    \/ \E w \in Workers : Get(w)
    \/ \E w \in Workers, r \in Responses : Send(w, r)
    \/ \E w \in Workers : Route(w)
    \/ \E w \in Workers : Save(w)
    \/ \E w \in Workers : SetProcessed(w)
    \/ \E w \in Workers : RaiseInPipeline(w)
    \/ \E w \in Workers : Requeue(w)
    \/ \E w \in Workers : RaiseToOuter(w)
    \/ \E w \in Workers : ErrWake(w)
    \/ \E p \in Probes : MonitorProbe(p)
    \/ MonitorWake
    \/ Purge

Spec == Init /\ [][Next]_vars

\* what queue.py's __main__ starts: the two consumer loops, fed by add_payment
\* (health_check_loop is started by neither entry point; purge is administrative)
NextPipeline ==
    \/ \E c \in CorrelationIds, a \in Amounts : Enqueue(c, a)
    \/ Tick
    \/ \E w \in Workers : Brpop(w)
    \/ \E w \in Workers : Delay(w)
    \/ \E w \in Workers, p \in Probes : WorkerHealth(w, p)
    \/ \E w \in Workers : Get(w)
    \/ \E w \in Workers, r \in Responses : Send(w, r)
    \/ \E w \in Workers : Route(w)
    \/ \E w \in Workers : Save(w)
    \/ \E w \in Workers : SetProcessed(w)
    \/ \E w \in Workers : RaiseInPipeline(w)
    \/ \E w \in Workers : Requeue(w)
    \/ \E w \in Workers : RaiseToOuter(w)
    \/ \E w \in Workers : ErrWake(w)

SpecPipeline == Init /\ [][NextPipeline]_vars

\* the pipeline when no store command raises
NextNominal ==
    \/ \E c \in CorrelationIds, a \in Amounts : Enqueue(c, a)
    \/ Tick
    \/ \E w \in Workers : Brpop(w)
    \/ \E w \in Workers : Delay(w)
    \/ \E w \in Workers, p \in Probes : WorkerHealth(w, p)
    \/ \E w \in Workers : Get(w)
    \/ \E w \in Workers, r \in Responses : Send(w, r)
    \/ \E w \in Workers : Route(w)
    \/ \E w \in Workers : Save(w)
    \/ \E w \in Workers : SetProcessed(w)

SpecNominal == Init /\ [][NextNominal]_vars

\* the ledger alone: records written to either partition, summaries, purges
NextLedger ==
    \/ \E c \in CorrelationIds, a \in Amounts, t \in 0..MaxTime, f \in BOOLEAN :
           Record(c, a, t, f)
    \/ \E from \in OptTimes, to \in OptTimes : GetSummary(from, to)
    \/ Purge

SpecLedger == Init /\ [][NextLedger]_vars

\* the pipeline while the store raises nothing and the processor answers every
\* dispatch with success, with summaries read while it runs
NextServed ==
    \/ \E c \in CorrelationIds, a \in Amounts : Enqueue(c, a)
    \/ Tick
    \/ \E w \in Workers : Brpop(w)
    \/ \E w \in Workers : Get(w)
    \/ \E w \in Workers : Send(w, "2xx")
    \/ \E w \in Workers : Save(w)
    \/ \E w \in Workers : SetProcessed(w)
    \/ \E from \in OptTimes, to \in OptTimes : GetSummary(from, to)

SpecServed == Init /\ [][NextServed]_vars

\* ------------------------------------------------- vocabulary of the claims
RecordsIn(key, c) == {m \in zsets[key] : m.correlationId = c}

\* ledger records of c, both partitions together
NumRecords(c) ==
    Cardinality(RecordsIn(PAYMENT_ZKEY, c)) + Cardinality(RecordsIn(PAYMENT_FALLBACK_ZKEY, c))

CopiesOn(q, c) == Cardinality({i \in 1..Len(lists[q]) : lists[q][i].correlationId = c})

Holders(c) == {w \in Workers : job[w].correlationId = c}

\* c is on no queue and no worker holds it
Quiescent(c) ==
    /\ CopiesOn(REDIS_QUEUE, c) = 0
    /\ CopiesOn(REDIS_FALLBACK_QUEUE, c) = 0
    /\ CopiesOn(REDIS_DEAD_LETTER_QUEUE, c) = 0
    /\ Holders(c) = {}

Pow2(n) == IF n = 0 THEN 1 ELSE IF n = 1 THEN 2 ELSE IF n = 2 THEN 4 ELSE 8

\* the asyncio.sleep time a worker spends between its pop and its dispatch
SleptBeforeDispatch(w) == IF w \in MainWorkers THEN 0 ELSE FALLBACK_WORKER_DELAY

\* ------------------------------------------------------------------ claims

\* C1: while the processed marker of a correlationId is live, the ledger (both
\* partitions together) holds at most one record for that correlationId.
C1_Idempotency == \A c \in CorrelationIds : Live(c) => NumRecords(c) <= 1

\* C2 (its finite part): a payment accepted once that has left every queue and
\* every worker has been settled exactly once: one ledger record, and its
\* marker has been set.
C2_SettledExactlyOnce ==
    \A c \in CorrelationIds :
        (AcceptedOf(c) = 1 /\ Quiescent(c)) => (NumRecords(c) = 1 /\ processed[c] > 0)

\* C3: once the dispatches of an item have failed MAX_RETRIES+1 times in a row
\* and the worker has routed it, the item is exactly once on the dead-letter
\* queue, with retryCount = MAX_RETRIES+1, and on neither other queue.
C3_DeadLetterTerminus ==
    \A c \in CorrelationIds :
        (AcceptedOf(c) = 1 /\ posts[c].ok = 0 /\ posts[c].fail >= MAX_RETRIES + 1
            /\ Holders(c) = {})
        => /\ CopiesOn(REDIS_DEAD_LETTER_QUEUE, c) = 1
           /\ \A i \in 1..Len(lists[REDIS_DEAD_LETTER_QUEUE]) :
                  lists[REDIS_DEAD_LETTER_QUEUE][i].correlationId = c
                  => RetryCount(lists[REDIS_DEAD_LETTER_QUEUE][i]) = MAX_RETRIES + 1
           /\ CopiesOn(REDIS_QUEUE, c) = 0
           /\ CopiesOn(REDIS_FALLBACK_QUEUE, c) = 0

\* C5: a failed dispatch of an item popped from the primary queue, with
\* retryCount+1 <= MAX_RETRIES, pushes the item on the fallback queue with
\* retryCount incremented by one and leaves the primary queue alone.
C5_FirstFailureReroute ==
    [][\A w \in MainWorkers :
          (Route(w) /\ RetryCount(job[w]) + 1 <= MAX_RETRIES)
          => /\ Len(lists'[REDIS_FALLBACK_QUEUE]) = Len(lists[REDIS_FALLBACK_QUEUE]) + 1
             /\ lists'[REDIS_FALLBACK_QUEUE][1].correlationId = job[w].correlationId
             /\ lists'[REDIS_FALLBACK_QUEUE][1].amount = job[w].amount
             /\ RetryCount(lists'[REDIS_FALLBACK_QUEUE][1]) = RetryCount(job[w]) + 1
             /\ lists'[REDIS_QUEUE] = lists[REDIS_QUEUE]]_vars

\* C6: a failed dispatch of an item popped from the fallback queue, with
\* retryCount+1 <= MAX_RETRIES, is followed by a wait of 2^retryCount time
\* units, and only then is the item pushed back on the fallback queue, with
\* retryCount incremented by one.
C6_ExponentialBackoff ==
    [][\A w \in FallbackWorkers :
          (Route(w) /\ RetryCount(job[w]) + 1 <= MAX_RETRIES)
          => /\ clock >= requestAt[w] + Pow2(RetryCount(job[w]))
             /\ lists'[REDIS_FALLBACK_QUEUE][1].correlationId = job[w].correlationId
             /\ RetryCount(lists'[REDIS_FALLBACK_QUEUE][1]) = RetryCount(job[w]) + 1]_vars

\* C7: while 'failing' reads True (from before the worker's pop until its
\* dispatch), the dispatch of any worker of either pool is preceded by a sleep
\* of a pacing delay, which is a positive duration.
C7_CircuitPacing ==
    \A w \in Workers :
        (pc[w] = "send" /\ sawFailing[w]) => SleptBeforeDispatch(w) > 0

\* C8: an item whose every dispatch fails is dispatched MAX_RETRIES+1 times in
\* total and no more; it is then on the dead-letter queue and the ledger holds
\* no record for it.
C8_AlwaysFailing ==
    \A c \in CorrelationIds :
        (AcceptedOf(c) = 1 /\ posts[c].ok = 0)
        => /\ posts[c].fail <= MAX_RETRIES + 1
           /\ (posts[c].fail = MAX_RETRIES + 1 /\ Holders(c) = {})
              => (CopiesOn(REDIS_DEAD_LETTER_QUEUE, c) = 1 /\ NumRecords(c) = 0)

\* C10: whenever a live processed marker exists for a correlationId, exactly
\* one ledger record exists for it.
C10_MarkerImpliesRecord == \A c \in CorrelationIds : Live(c) => NumRecords(c) = 1

\* -------------------------------------------------------------- C4 and C9
InRange(m, from, to) ==
    /\ (from = <<>> \/ from[1] <= m.requested_at)
    /\ (to = <<>> \/ m.requested_at <= to[1])

\* count and total amount of the records of one partition within [from, to]
RangeAggregate(key, from, to) ==
    LET hits == {m \in zsets[key] : InRange(m, from, to)}
        perAmount == [a \in Amounts |-> a * Cardinality({m \in hits : m.amount = a})]
    IN  [totalRequests |-> Cardinality(hits), totalAmount |-> SumOver(perAmount, Amounts)]

\* C4: the answer of summary(from, to) is, for each partition, the count and
\* the total amount of exactly the ledger records with settledAt in [from, to],
\* both partitions taken from the one ledger state the query ran in.
C4_SummaryOfOneSnapshot ==
    [][summary' # summary
       => /\ summary'.default = RangeAggregate(PAYMENT_ZKEY, summary'.from, summary'.to)
          /\ summary'.fallback = RangeAggregate(PAYMENT_FALLBACK_ZKEY, summary'.from, summary'.to)]_vars

\* C9: when the pipeline completes for an item accepted once whose first and
\* only dispatch was answered 2xx, the ledger holds exactly one record for its
\* correlationId, in the default partition, with the accepted amount; the
\* marker is live; the item is on no queue and with no worker.
C9_SuccessScenario ==
    [][\A w \in Workers :
          LET c == job[w].correlationId IN
          (SetProcessed(w) /\ AcceptedOf(c) = 1 /\ posts[c] = [ok |-> 1, fail |-> 0])
          => /\ Cardinality({m \in zsets'[PAYMENT_ZKEY] : m.correlationId = c}) = 1
             /\ \A m \in zsets'[PAYMENT_ZKEY] :
                    m.correlationId = c => accepted[c][m.amount] = 1
             /\ {m \in zsets'[PAYMENT_FALLBACK_ZKEY] : m.correlationId = c} = {}
             /\ clock' < processed'[c]
             /\ \A q \in DOMAIN lists' : \A i \in 1..Len(lists'[q]) :
                    lists'[q][i].correlationId # c
             /\ \A v \in Workers : job'[v].correlationId # c]_vars

C9_Witness ==
    \E c \in CorrelationIds :
        /\ AcceptedOf(c) = 1
        /\ posts[c] = [ok |-> 1, fail |-> 0]
        /\ Live(c)
        /\ Quiescent(c)
        /\ \E m \in zsets[PAYMENT_ZKEY] : m.correlationId = c /\ accepted[c][m.amount] = 1

\* C11: when the pipeline raises for a popped item, the worker pushes the item,
\* unchanged, onto the queue it was popped from, and pauses before it goes on
\* with its loop.
C11_RequeueThenPause ==
    [][\A w \in Workers :
          Requeue(w) => /\ Len(lists'[QueueOf(w)]) = Len(lists[QueueOf(w)]) + 1
                        /\ lists'[QueueOf(w)][1] = job[w]
                        /\ pc'[w] = "errsleep"]_vars

\* a probe that did not bring a health report: it raised, or its answer has no
\* 'failing' field
FailedProbes == {"None", "error"}

\* C12: a failed health probe leaves the shared 'failing' state exactly as it
\* was, and the monitor loop goes on to its next probe.
C12_StaleButSafe ==
    [][\A p \in FailedProbes :
          /\ MonitorProbe(p) => failing' = failing /\ monitor'.pc = "sleep"
          /\ \A w \in FallbackWorkers : WorkerHealth(w, p) => failing' = failing]_vars

\* C13: a worker whose check finds a live processed marker for the popped
\* item's correlationId drops the item: the step dispatches nothing, writes no
\* ledger record and pushes on no queue, and the worker is back at its pop with
\* nothing in hand; a worker starts a dispatch only for an item whose marker
\* was not live at the check.
C13_DuplicateDropped ==
    [][\A w \in Workers :
          LET c == job[w].correlationId IN
          /\ (Get(w) /\ clock < processed[c])
                => /\ posts' = posts
                   /\ zsets' = zsets
                   /\ lists' = lists
                   /\ pc'[w] = "brpop"
                   /\ job'[w] = NoJob
          /\ (pc'[w] = "send" /\ pc[w] # "send") => ~(clock < processed[c])]_vars

C13_Witness ==
    \E c \in CorrelationIds :
        /\ AcceptedOf(c) = 2
        /\ posts[c] = [ok |-> 1, fail |-> 0]
        /\ NumRecords(c) = 1
        /\ clock < processed[c]
        /\ Quiescent(c)
        /\ faults = 0

\* C14: an item enters the primary queue with retryCount 0; a reroute after a
\* failed dispatch, by a worker of either pool, pushes the item with its
\* retryCount raised by exactly one; a requeue after an exception pushes it
\* with its retryCount unchanged.
C14_RetryCountDiscipline ==
    [][/\ \A c \in CorrelationIds, a \in Amounts :
             Enqueue(c, a) => RetryCount(lists'[REDIS_QUEUE][1]) = 0
       /\ \A w \in Workers :
             /\ Route(w) => \E q \in DOMAIN lists :
                               /\ Len(lists'[q]) = Len(lists[q]) + 1
                               /\ RetryCount(lists'[q][1]) = RetryCount(job[w]) + 1
             /\ Requeue(w) => RetryCount(lists'[QueueOf(w)][1]) = RetryCount(job[w])]_vars

\* C15: no correlationId has a ledger record in the default partition and one
\* in the fallback partition, whichever pool's worker wrote them.
C15_PartitionDisjointness ==
    \A c \in CorrelationIds :
        RecordsIn(PAYMENT_ZKEY, c) = {} \/ RecordsIn(PAYMENT_FALLBACK_ZKEY, c) = {}

\* a fallback worker has written the record of the item it holds, while a
\* record of the same correlationId written from the primary queue exists
C15_Witness ==
    \E w \in FallbackWorkers :
        /\ pc[w] = "set"
        /\ NumRecords(job[w].correlationId) = 2
        /\ LedgerMember(job[w], requestAt[w]) \in
              zsets[PAYMENT_ZKEY] \cup zsets[PAYMENT_FALLBACK_ZKEY]

\* C16: one pop gives at most one dispatch (a worker starts a dispatch only
\* straight from the marker check that follows a pop, and the answer ends it),
\* and a dispatch that fails (an answer that is not 2xx, or a request error)
\* changes neither ledger partition nor any processed marker and is followed
\* by no ledger write for that pop.
C16_SingleAttemptNoEffectOnFailure ==
    [][\A w \in Workers :
          /\ pc'[w] = "send" => pc[w] \in {"get", "send"}
          /\ pc'[w] = "get" => pc[w] \in {"brpop", "health", "get"}
          /\ \A r \in Responses :
                Send(w, r) => /\ pc'[w] # "send"
                              /\ posts'[job[w].correlationId].ok
                                   + posts'[job[w].correlationId].fail
                                   = PostsOf(job[w].correlationId) + 1
                              /\ r # "2xx" => /\ zsets' = zsets
                                              /\ processed' = processed
                                              /\ pc'[w] \notin {"save", "set"}]_vars

\* a worker whose dispatch has just failed, for a payment with no other dispatch
C16_Witness ==
    \E w \in Workers :
        /\ pc[w] = "route"
        /\ posts[job[w].correlationId] = [ok |-> 0, fail |-> 1]
        /\ NumRecords(job[w].correlationId) = 0
        /\ processed[job[w].correlationId] = 0

\* copies of c on the three queues plus the workers that hold c
Places(c) ==
    CopiesOn(REDIS_QUEUE, c) + CopiesOn(REDIS_FALLBACK_QUEUE, c)
      + CopiesOn(REDIS_DEAD_LETTER_QUEUE, c) + Cardinality(Holders(c))

\* C17: a payment accepted once is in exactly one place (one copy on one of
\* the three queues, or in the hands of one worker), or it is in none and has
\* been settled (it has a ledger record); no step destroys an unsettled item or
\* duplicates an item.
C17_ItemConservation ==
    \A c \in CorrelationIds :
        AcceptedOf(c) = 1 => \/ Places(c) = 1
                             \/ Places(c) = 0 /\ NumRecords(c) >= 1

\* C18: a payment accepted once never has more than one ledger record, and
\* no dispatch of it is under way while it already has a record, also when a
\* store command raises at some step of the pipeline and the worker requeues
\* the item.
C18_NoDoubleSettlement ==
    \A c \in CorrelationIds :
        AcceptedOf(c) = 1
          => /\ NumRecords(c) <= 1
             /\ \A w \in Holders(c) : pc[w] = "send" => NumRecords(c) = 0

\* C19: every ledger record, in either partition, is of a correlationId and an
\* amount that were enqueued together, and a dispatch of that correlationId was
\* answered with success before the record was written; a worker writes a
\* record only straight after the successful answer to its own dispatch.
C19_NoPhantomSettlement ==
    /\ \A k \in DOMAIN zsets : \A m \in zsets[k] :
          /\ m.correlationId \in CorrelationIds
          /\ m.amount \in Amounts
          /\ accepted[m.correlationId][m.amount] >= 1
          /\ posts[m.correlationId].ok >= 1
    /\ \A c \in CorrelationIds : NumRecords(c) <= posts[c].ok
    /\ \A w \in Workers :
          pc[w] \in {"save", "set"} => /\ posts[job[w].correlationId].ok >= 1
                                       /\ accepted[job[w].correlationId][job[w].amount] >= 1

\* a payment whose only dispatch failed, rerouted and waiting, with no record,
\* next to a payment that has its record
C19_Witness ==
    \E c, d \in CorrelationIds :
        /\ posts[c] = [ok |-> 0, fail |-> 1]
        /\ CopiesOn(REDIS_FALLBACK_QUEUE, c) = 1
        /\ NumRecords(c) = 0
        /\ NumRecords(d) = 1
        /\ posts[d].ok = 1

\* C20: with no purge, a summary of a range that was served at a time later
\* than the range's upper bound is served again with the same counts and
\* totals.
C20_StablePastRanges ==
    [][\A from \in OptTimes, to \in OptTimes :
          (/\ GetSummary(from, to)
           /\ summary.from = from
           /\ summary.to = to
           /\ to # <<>>
           /\ summary.at > to[1])
          => /\ summary'.default = summary.default
             /\ summary'.fallback = summary.fallback]_vars

====
